---- MODULE Spec2Model ----
(***************************************************************************)
(* bromine/browser.py: Browser (a facade over a selenium driver),          *)
(* FutureElement (the lazy element handle), ElemWrapper (the resolved      *)
(* element wrapper) and element_containing_text (the text-presence wait    *)
(* predicate).                                                             *)
(*                                                                         *)
(* The driver is the environment: every request to it (find_element,       *)
(* find_elements, a property read, an interaction, a title read) is        *)
(* answered by a response drawn from a small set.  A wait is a sequence of *)
(* polls; each poll is one round trip to the driver, so a wait that is in  *)
(* progress is a position of the calling thread (cur) and each poll is one *)
(* step.  Every other handler is one step.  The program is                 *)
(* single-threaded: while a wait is in progress nothing else runs.         *)
(***************************************************************************)
EXTENDS Integers, Sequences, FiniteSets, TLC

VARIABLES
    fe_made,    \* a FutureElement has been created by Browser.elem
    fe_kwargs,  \* FutureElement._kwargs
    fe_elem,    \* FutureElement._elem: Null or the cached ElemWrapper
    wrappers,   \* every ElemWrapper constructed so far: wrappers[w] = its _elem
    cur,        \* the wait in progress (op = "idle" when none)
    last,       \* the call that completed last and its outcome
    sel         \* argument and result of a _get_selector/_get_condition call

vars == <<fe_made, fe_kwargs, fe_elem, wrappers, cur, last, sel>>

-----------------------------------------------------------------------------
(* Bounds of the model *)

\* polls one wait makes before its timeout expires, at most
MaxPolls == 3
\* ElemWrapper objects constructed in one behaviour, at most
MaxWrappers == 2
\* keys of one selector or condition spec, at most
MaxKeys == 2

-----------------------------------------------------------------------------
(* Values *)

\* FutureElement._elem = None; wrappers are numbered from 1
Null == 0

Elements == {"e1", "e2"}
Elem(e) == <<"elem", e>>
PyTrue == <<"bool", "True">>
PyFalse == <<"bool", "False">>
Truthy(v) == v[1] = "elem" \/ v = PyTrue

\* an optional argument: None, or a text (a sequence of characters)
NoArg == [some |-> FALSE, v |-> <<>>]
Some(t) == [some |-> TRUE, v |-> t]

\* Python's `sub in s` on strings
Contains(sub, s) ==
    \E i \in 0..(Len(s) - Len(sub)) : SubSeq(s, i + 1, i + Len(sub)) = sub

Texts == {<<>>, <<"b">>, <<"a", "b">>}
Values == {"v1", "v2"}

\* every function from at most MaxKeys of the keys to the values
SpecsOver(keys, values) ==
    UNION {[K -> values] : K \in {S \in SUBSET keys : Cardinality(S) <= MaxKeys}}

-----------------------------------------------------------------------------
(* Browser.selectors, Browser.conditions, ElemWrapper._select_selectors *)

selectors ==
    [id |-> "id", xpath |-> "xpath", link |-> "link text",
     partial_link |-> "partial link text", name |-> "name",
     tag |-> "tag name", cls |-> "class name", css |-> "css selector"]

conditions == [title_has |-> "title_contains", title |-> "title_is"]

_select_selectors ==
    [index |-> "select_by_index", text |-> "select_by_visible_text",
     value |-> "select_by_value"]

Returned(s, v) == [exc |-> "", msg |-> <<>>, sel |-> s, val |-> v]
Raised(e, m) == [exc |-> e, msg |-> m, sel |-> "", val |-> ""]

\* Browser._get_selector(kwargs, selectors)
_get_selector_any(kwargs, table) ==
    IF kwargs = <<>>
    THEN Raised("TypeError", <<"no selector specified">>)
    ELSE LET k == CHOOSE x \in DOMAIN kwargs : TRUE
         IN  IF k \in DOMAIN table
             THEN Returned(table[k], kwargs[k])
             ELSE Raised("TypeError", <<"bad selector", k>>)

_get_selector(kwargs, table) ==
    IF \E k \in DOMAIN kwargs : k \notin DOMAIN table
    THEN LET k == CHOOSE x \in DOMAIN kwargs : x \notin DOMAIN table
         IN  Raised("TypeError", <<"bad selector", k>>)
    ELSE IF DOMAIN kwargs = {}
    THEN Raised("TypeError", <<"no selector specified">>)
    ELSE IF Cardinality(DOMAIN kwargs) > 1
    THEN Raised("TypeError", <<"only one selector, please">>)
    ELSE LET k == CHOOSE x \in DOMAIN kwargs : TRUE
         IN  Returned(table[k], kwargs[k])

\* Browser._get_condition(kwargs)
_get_condition(kwargs) ==
    IF \E k \in DOMAIN kwargs : k \notin DOMAIN conditions
    THEN LET k == CHOOSE x \in DOMAIN kwargs : x \notin DOMAIN conditions
         IN  Raised("TypeError", <<"bad wait condition", k>>)
    ELSE IF Cardinality(DOMAIN kwargs) > 1
    THEN Raised("TypeError", <<"only one condition, please">>)
    ELSE IF DOMAIN kwargs = {}
    THEN Raised("TypeError", <<"no condition specified">>)
    ELSE LET k == CHOOSE x \in DOMAIN kwargs : TRUE
         IN  Returned(conditions[k], kwargs[k])

\* the optional positional css argument: None, or a selector value
NoCss == [some |-> FALSE, v |-> ""]
Css(v) == [some |-> TRUE, v |-> v]

\* `if css is not None: kwargs["css"] = css`
WithCss(css, kwargs) ==
    IF css.some
    THEN [k \in DOMAIN kwargs \cup {"css"} |-> IF k = "css" THEN css.v ELSE kwargs[k]]
    ELSE kwargs

-----------------------------------------------------------------------------
(* The driver's responses.  A response is what the driver does when it is  *)
(* asked for the element of a locator and then for that element's          *)
(* properties: find_element raises, or returns an element whose property   *)
(* reads succeed ("found") or raise staleness ("detached").  "title" is    *)
(* the answer to a read of driver.title.                                   *)

ErrKinds ==
    {"NoSuchElementException", "StaleElementReferenceException", "WebDriverException"}

Resp(kind, el, displayed, enabled, text) ==
    [kind |-> kind, el |-> el, displayed |-> displayed, enabled |-> enabled,
     text |-> text]

ErrorResponses == {Resp(k, "-", FALSE, FALSE, <<>>) : k \in ErrKinds}
FoundResponses ==
    {Resp("found", e, d, en, t) : e \in Elements, d \in BOOLEAN, en \in BOOLEAN, t \in Texts}
DetachedResponses == {Resp("detached", e, FALSE, FALSE, <<>>) : e \in Elements}
PollResponses == ErrorResponses \cup FoundResponses \cup DetachedResponses
FindResponses == ErrorResponses \cup {Resp("found", e, TRUE, TRUE, <<>>) : e \in Elements}
TitleResponses ==
    {Resp("title", "-", FALSE, FALSE, t) : t \in Texts}
        \cup {Resp("WebDriverException", "-", FALSE, FALSE, <<>>)}

\* str(e) of an exception the driver raised
DriverMsg(kind) == <<"Message:", kind>>
\* str(e) of the TimeoutException of WebDriverWait
TimeoutMsg == <<"Message:">>

IsStale(r) == r.kind \in {"StaleElementReferenceException", "detached"}
\* the driver says the element is there, displayed and enabled
ReportsClickable(r) == r.kind = "found" /\ r.displayed /\ r.enabled
\* the element's text is non-empty (no target given) or contains the target
TextPresent(target, r) ==
    r.kind = "found" /\ (IF target.some THEN Contains(target.v, r.text) ELSE r.text # <<>>)
\* what the driver's response says of a wait condition
CondMet(cond, arg, r) ==
    CASE cond = "present" -> r.kind \in {"found", "detached"}
      [] cond = "visible" -> r.kind = "found" /\ r.displayed
      [] cond = "clickable" -> ReportsClickable(r)
      [] cond = "text" -> TextPresent(arg, r)
      [] cond = "title_is" -> r.kind = "title" /\ r.text = arg.v
      [] cond = "title_contains" -> r.kind = "title" /\ Contains(arg.v, r.text)

-----------------------------------------------------------------------------
(* The wait predicates: what one evaluation against the driver yields *)

Val(v) == [exc |-> "", val |-> v]
Exc(e) == [exc |-> e, val |-> PyFalse]

\* EC._find_element(driver, locator)
_find_element(r) ==
    IF r.kind \in ErrKinds THEN Exc(r.kind) ELSE Val(Elem(r.el))

\* EC.presence_of_element_located
presence_of_element_located(r) == _find_element(r)

\* EC.visibility_of_element_located: staleness is caught and gives False
visibility_of_element_located(r) ==
    LET f == _find_element(r)
    IN  IF f.exc = "StaleElementReferenceException" THEN Val(PyFalse)
        ELSE IF f.exc # "" THEN f
        ELSE IF r.kind = "detached" THEN Val(PyFalse)
        ELSE IF r.displayed THEN f
        ELSE Val(PyFalse)

\* EC.element_to_be_clickable without the is_enabled() test
element_to_be_clickable_displayed(r) == visibility_of_element_located(r)

\* EC.element_to_be_clickable
element_to_be_clickable(r) ==
    LET element == visibility_of_element_located(r)
    IN  IF element.exc # "" THEN element
        ELSE IF Truthy(element.val) /\ r.enabled THEN element
        ELSE Val(PyFalse)

\* element_containing_text.__call__ without the `except` clause
element_containing_text_nocatch(text_, r) ==
    LET elem == _find_element(r)
    IN  IF elem.exc # "" THEN elem
        ELSE IF r.kind = "detached" THEN Exc("StaleElementReferenceException")
        ELSE IF ~text_.some
        THEN IF r.text # <<>> THEN elem ELSE Val(PyFalse)
        ELSE IF Contains(text_.v, r.text) THEN elem ELSE Val(PyFalse)

\* element_containing_text.__call__
element_containing_text(text_, r) ==
    LET elem == _find_element(r)
    IN  IF elem.exc = "StaleElementReferenceException" THEN Val(PyFalse)
        ELSE IF elem.exc # "" THEN elem
        ELSE IF r.kind = "detached" THEN Val(PyFalse)
        ELSE IF ~text_.some
        THEN IF r.text # <<>> THEN elem ELSE Val(PyFalse)
        ELSE IF Contains(text_.v, r.text) THEN elem ELSE Val(PyFalse)

\* EC.title_is, EC.title_contains
title_is(title, r) ==
    IF r.kind \in ErrKinds THEN Exc(r.kind)
    ELSE Val(IF r.text = title THEN PyTrue ELSE PyFalse)

title_contains(title, r) ==
    IF r.kind \in ErrKinds THEN Exc(r.kind)
    ELSE Val(IF Contains(title, r.text) THEN PyTrue ELSE PyFalse)

\* meth(*args)(driver), meth chosen by the condition name
meth(cond, arg, r) ==
    CASE cond = "present" -> presence_of_element_located(r)
      [] cond = "clickable" -> element_to_be_clickable(r)
      [] cond = "visible" -> visibility_of_element_located(r)
      [] cond = "text" -> element_containing_text(arg, r)
      [] cond = "title_is" -> title_is(arg.v, r)
      [] cond = "title_contains" -> title_contains(arg.v, r)

-----------------------------------------------------------------------------
(* One iteration of WebDriverWait.until / until_not on a predicate value *)

Return(v) == [status |-> "return", val |-> v, exc |-> ""]
Retry == [status |-> "retry", val |-> PyFalse, exc |-> ""]
Raise(e) == [status |-> "raise", val |-> PyFalse, exc |-> e]

\* WebDriverWait.until: NoSuchElementException is ignored
until(p) ==
    IF p.exc = "" THEN (IF Truthy(p.val) THEN Return(p.val) ELSE Retry)
    ELSE IF p.exc = "NoSuchElementException" THEN Retry
    ELSE Raise(p.exc)

\* WebDriverWait.until_not: NoSuchElementException gives True
until_not(p) ==
    IF p.exc = "" THEN (IF ~Truthy(p.val) THEN Return(p.val) ELSE Retry)
    ELSE IF p.exc = "NoSuchElementException" THEN Return(PyTrue)
    ELSE Raise(p.exc)

\* `wmeth = wait.until if not neg else wait.until_not` ignoring neg
wmeth_until(neg, p) == until(p)

\* `wmeth = wait.until if not neg else wait.until_not`
wmeth(neg, p) == IF ~neg THEN until(p) ELSE until_not(p)

-----------------------------------------------------------------------------
(* Inputs of the calls *)

\* selector specs given to Browser.elem/find and ElemWrapper.elem/find: no
\* key, one recognized key, an unrecognized key, two keys (a second
\* recognized key comes only with the first)
SelSpecs ==
    {s \in SpecsOver({"id", "css", "bogus"}, {"v1"}) :
        "id" \in DOMAIN s => DOMAIN s = {"id", "css"}}
\* specs given to select(**kwargs), chosen likewise
SelectSpecs ==
    {s \in SpecsOver({"index", "value", "bogus"}, {"v1"}) :
        "value" \in DOMAIN s => DOMAIN s = {"index", "value"}}
\* specs given to Browser.wait(**kwargs)
CondSpecs == SpecsOver({"title", "title_has", "bogus"}, {<<"a">>})
\* specs given to _get_selector and _get_condition called on their own
AllSpecs ==
    SpecsOver(DOMAIN selectors \cup DOMAIN conditions \cup DOMAIN _select_selectors
                  \cup {"bogus"}, Values)
CssArgs == {NoCss, Css("v1")}
\* a positional css and a css keyword cannot both be passed
CallOK(css, kwargs) == css.some => "css" \notin DOMAIN kwargs

\* the condition of FutureElement.wait, as its whitespace-separated words
ConditionStrings ==
    {<<>>, <<"present">>, <<"clickable">>, <<"visible">>, <<"text">>, <<"bogus">>,
     <<"not">>, <<"not", "present">>, <<"not", "clickable">>, <<"not", "visible">>,
     <<"not", "text">>, <<"not", "bogus">>}
WaitArgs == {NoArg, Some(<<"a">>)}

\* what find_elements returns: at most n of the elements, in document order
FoundLists(n) ==
    {f \in {<<>>, <<"e1">>, <<"e2">>, <<"e1", "e2">>} : Len(f) <= n}

\* what an interaction with an element, or a read of one of its properties, raises
InteractionResults == {"", "StaleElementReferenceException"}

\* attributes read through FutureElement.__getattr__
Attrs == {"text", "find"}
\* attributes ElemWrapper defines itself
WrapperAttrs == {"elem", "find", "select", "clear"}

-----------------------------------------------------------------------------
(* State *)

\* polls: the polls made so far; allmet: at each of them the driver reported
\* the condition met; prev: FutureElement._elem when the call began; errs:
\* the errors the driver raised so far
Idle ==
    [op |-> "idle", cond |-> "", neg |-> FALSE, arg |-> NoArg, kw |-> <<>>,
     polls |-> 0, allmet |-> TRUE, prev |-> Null, errs |-> {}]

\* op: the call; kw, cond, neg, arg: its arguments; exc: the exception that
\* reached the caller ("" when it returned); msg: its message; raised: the
\* exception the handler caught or let through; value: the wrapper returned;
\* count: the number of wrappers returned by find; finds: find_element(s)
\* requests issued; polls: polls made; cached: the wrapper the call assigned
\* to FutureElement._elem; prev: FutureElement._elem when the call began;
\* served: the wrapper an attribute was read from; sent: the wrapper whose
\* element received an interaction; met: at the poll that ended the wait the
\* driver reported the condition met; allmet: it did so at every earlier
\* poll; el: the element the driver yielded at the poll at which the wait
\* returned; errs: the errors the driver raised during the call.
Blank ==
    [op |-> "", kw |-> <<>>, cond |-> "", neg |-> FALSE, arg |-> NoArg,
     exc |-> "", msg |-> <<>>, raised |-> "", value |-> Null, count |-> 0,
     finds |-> 0, polls |-> 0, cached |-> Null, prev |-> Null, served |-> Null,
     sent |-> Null, met |-> FALSE, allmet |-> TRUE, el |-> "-", errs |-> {}]

NoSel == [kwargs |-> <<>>, fn |-> "", res |-> Returned("", "")]

\* Browser.__init__; no FutureElement and no ElemWrapper exists yet
Init ==
    /\ fe_made = FALSE
    /\ fe_kwargs = <<>>
    /\ fe_elem = Null
    /\ wrappers = <<>>
    /\ cur = Idle
    /\ last = Blank
    /\ sel = NoSel

Room == Len(wrappers) < MaxWrappers

-----------------------------------------------------------------------------
(* Browser *)

\* Browser.elem / FutureElement.__init__
Browser_elem(css, kwargs) ==
    /\ cur.op = "idle"
    /\ ~fe_made
    /\ CallOK(css, kwargs)
    /\ fe_made' = TRUE
    /\ fe_kwargs' = WithCss(css, kwargs)
    /\ fe_elem' = Null
    /\ last' = [Blank EXCEPT !.op = "Browser.elem", !.kw = WithCss(css, kwargs),
                             !.prev = fe_elem]
    /\ UNCHANGED <<wrappers, cur, sel>>

\* [ElemWrapper(i) for i in found]
Wrapped(found) == [i \in 1..Len(found) |-> Elem(found[i])]

\* Browser.find
Browser_find(css, kwargs) ==
    /\ cur.op = "idle"
    /\ CallOK(css, kwargs)
    /\ LET kw == WithCss(css, kwargs)
           s == _get_selector(kw, selectors)
       IN  IF s.exc # ""
           THEN /\ last' = [Blank EXCEPT !.op = "Browser.find", !.kw = kw,
                                         !.prev = fe_elem,
                                         !.exc = s.exc, !.msg = s.msg]
                /\ UNCHANGED wrappers
           ELSE \E found \in FoundLists(MaxWrappers - Len(wrappers)) :
                /\ wrappers' = wrappers \o Wrapped(found)
                /\ last' = [Blank EXCEPT !.op = "Browser.find", !.kw = kw,
                                         !.prev = fe_elem,
                                         !.count = Len(found), !.finds = 1]
    /\ UNCHANGED <<fe_made, fe_kwargs, fe_elem, cur, sel>>

\* Browser.wait, up to the first poll
Browser_wait(kwargs) ==
    /\ cur.op = "idle"
    /\ LET s == _get_condition(kwargs)
       IN  IF s.exc # ""
           THEN /\ last' = [Blank EXCEPT !.op = "Browser.wait", !.kw = kwargs,
                                         !.prev = fe_elem,
                                         !.exc = s.exc, !.msg = s.msg]
                /\ UNCHANGED cur
           ELSE /\ Room
                /\ cur' = [Idle EXCEPT !.op = "Browser.wait", !.cond = s.sel,
                                       !.arg = Some(s.val), !.kw = kwargs,
                                       !.prev = fe_elem]
                /\ last' = Blank
    /\ UNCHANGED <<fe_made, fe_kwargs, fe_elem, wrappers, sel>>

-----------------------------------------------------------------------------
(* ElemWrapper: what a call on a wrapper holding `ref` does.  sent: the     *)
(* element received a request; self: the call returns the wrapper itself.   *)

Outcome(exc, sent, self) == [exc |-> exc, sent |-> sent, self |-> self]

\* ElemWrapper.__getattr__ and the use of the forwarded attribute: a bool
\* has no element attributes, an element answers or raises `ires`
Wrapper_getattr(ref, ires) ==
    IF ref[1] # "elem" THEN Outcome("AttributeError", FALSE, FALSE)
    ELSE Outcome(ires, TRUE, FALSE)

\* ElemWrapper.clear
Wrapper_clear(ref, ires) ==
    IF ref[1] # "elem" THEN Outcome("AttributeError", FALSE, FALSE)
    ELSE Outcome(ires, TRUE, ires = "")

\* ElemWrapper.select
Wrapper_select(ref, kwargs, ires) ==
    LET s == _get_selector(kwargs, _select_selectors)
    IN  IF s.exc # "" THEN Outcome(s.exc, FALSE, FALSE)
        ELSE IF ref[1] # "elem" THEN Outcome("AttributeError", FALSE, FALSE)
        ELSE Outcome(ires, TRUE, FALSE)

-----------------------------------------------------------------------------
(* FutureElement *)

\* lines 94-111 of FutureElement.wait: the negation prefix and the condition
ParseCondition(condition) ==
    IF condition = <<>>
    THEN [exc |-> "IndexError", msg |-> <<"list index out of range">>,
          neg |-> FALSE, cond |-> ""]
    ELSE LET neg == Head(condition) = "not"
             rest == IF neg THEN Tail(condition) ELSE condition
             c == IF rest = <<>> THEN <<"present">> ELSE rest
         IN  IF c \in {<<"present">>, <<"clickable">>, <<"visible">>, <<"text">>}
             THEN [exc |-> "", msg |-> <<>>, neg |-> neg, cond |-> c[1]]
             ELSE [exc |-> "TypeError", msg |-> <<"bad condition">> \o c,
                   neg |-> neg, cond |-> ""]

\* ", ".join("%s: %s" % p for p in sorted(self._kwargs.items())), for the
\* one-key kwargs that _get_selector lets through
SelDesc(kwargs) ==
    LET k == CHOOSE x \in DOMAIN kwargs : TRUE IN <<k, kwargs[k]>>

\* the message built in lines 124-134
EnrichedMsg(kwargs, neg, condition, arg, excname, inner) ==
    <<"error waiting for">> \o SelDesc(kwargs) \o <<"to be">>
        \o (IF neg THEN <<"not">> ELSE <<>>) \o <<condition>>
        \o (IF arg.some THEN <<"(">> \o arg.v \o <<")">> ELSE <<>>)
        \o <<excname>> \o inner

\* type(e)(msg) replaced by the base class
Reraise_base(e, msg) == [exc |-> "WebDriverException", msg |-> msg]

\* do_raise(type(e)(msg))
Reraise(e, msg) == [exc |-> e, msg |-> msg]

\* FutureElement.wait up to the first poll; clear, click, send_keys and
\* select begin with self.wait("clickable")
StartWait(op, condition, arg, kwargs) ==
    /\ cur.op = "idle"
    /\ fe_made
    /\ LET p == ParseCondition(condition)
           s == _get_selector(fe_kwargs, selectors)
           call == [Blank EXCEPT !.op = op, !.kw = kwargs, !.arg = arg,
                                 !.prev = fe_elem, !.cond = p.cond, !.neg = p.neg]
       IN  IF p.exc # ""
           THEN /\ last' = [call EXCEPT !.exc = p.exc, !.msg = p.msg]
                /\ UNCHANGED cur
           ELSE IF s.exc # ""
           THEN /\ last' = [call EXCEPT !.exc = s.exc, !.msg = s.msg]
                /\ UNCHANGED cur
           ELSE IF arg.some /\ p.cond # "text"
           THEN \* meth(*args): these predicates take the locator alone
                /\ last' = [call EXCEPT !.exc = "TypeError",
                                        !.msg = <<"__init__() takes 2 positional arguments">>]
                /\ UNCHANGED cur
           ELSE /\ Room
                /\ cur' = [Idle EXCEPT !.op = op, !.cond = p.cond, !.neg = p.neg,
                                       !.arg = arg, !.kw = kwargs, !.prev = fe_elem]
                /\ last' = Blank
    /\ UNCHANGED <<fe_made, fe_kwargs, fe_elem, wrappers, sel>>

FutureElement_wait(condition, arg) ==
    StartWait("FutureElement.wait", condition, arg, <<>>)

FutureElement_clear == StartWait("FutureElement.clear", <<"clickable">>, NoArg, <<>>)

FutureElement_click == StartWait("FutureElement.click", <<"clickable">>, NoArg, <<>>)

FutureElement_send_keys ==
    StartWait("FutureElement.send_keys", <<"clickable">>, NoArg, <<>>)

FutureElement_select(kwargs) ==
    StartWait("FutureElement.select", <<"clickable">>, NoArg, kwargs)

\* `if self._elem is None` replaced by a lookup on every access
_needs_lookup_always(elem) == TRUE

\* `if self._elem is None` in FutureElement.__getattr__
_needs_lookup(elem) == elem = Null

\* getattr(self._elem, attr) on wrapper w holding ref, and the use of the result
Forwarded(call, attr, w, ref, ires) ==
    IF attr \in WrapperAttrs
    THEN [call EXCEPT !.served = w]
    ELSE LET o == Wrapper_getattr(ref, ires)
         IN  [call EXCEPT !.served = w, !.exc = o.exc,
                          !.sent = IF o.sent THEN w ELSE Null,
                          !.errs = IF o.sent /\ o.exc # "" THEN @ \cup {o.exc} ELSE @]

\* FutureElement.__getattr__
FutureElement_getattr(attr) ==
    /\ cur.op = "idle"
    /\ fe_made
    /\ LET call == [Blank EXCEPT !.op = "FutureElement.__getattr__", !.prev = fe_elem]
           s == _get_selector(fe_kwargs, selectors)
           w == Len(wrappers) + 1
       IN  IF ~_needs_lookup(fe_elem)
           THEN /\ \E ires \in InteractionResults :
                     last' = Forwarded(call, attr, fe_elem, wrappers[fe_elem], ires)
                /\ UNCHANGED <<fe_elem, wrappers>>
           ELSE IF s.exc # ""
           THEN /\ last' = [call EXCEPT !.exc = s.exc, !.msg = s.msg]
                /\ UNCHANGED <<fe_elem, wrappers>>
           ELSE \E r \in FindResponses :
                IF r.kind \in ErrKinds
                THEN \* do_raise(e)
                     /\ last' = [call EXCEPT !.exc = r.kind, !.msg = DriverMsg(r.kind),
                                             !.raised = r.kind, !.finds = 1,
                                             !.errs = {r.kind}]
                     /\ UNCHANGED <<fe_elem, wrappers>>
                ELSE /\ Room
                     /\ wrappers' = Append(wrappers, Elem(r.el))
                     /\ fe_elem' = w
                     /\ \E ires \in InteractionResults :
                          last' = Forwarded([call EXCEPT !.finds = 1, !.cached = w],
                                            attr, w, Elem(r.el), ires)
    /\ UNCHANGED <<fe_made, fe_kwargs, cur, sel>>

-----------------------------------------------------------------------------
(* The polls of a wait in progress *)

Responses(c) == IF c.op = "Browser.wait" THEN TitleResponses ELSE PollResponses

\* the errors the driver raises during one poll of the wait c
PollErrs(c, r) ==
    IF r.kind \in ErrKinds THEN {r.kind}
    ELSE IF r.kind = "detached" /\ c.cond \in {"clickable", "visible", "text"}
    THEN {"StaleElementReferenceException"}
    ELSE {}

\* one iteration of the loop of wmeth(meth(*args))
PollResult(c, r) == wmeth(c.neg, meth(c.cond, c.arg, r))

\* the call that ends with this poll
Ended(c, r) ==
    [Blank EXCEPT !.op = c.op, !.kw = c.kw, !.cond = c.cond, !.neg = c.neg,
                  !.arg = c.arg, !.prev = c.prev, !.polls = c.polls + 1,
                  !.finds = IF c.op = "Browser.wait" THEN 0 ELSE c.polls + 1,
                  !.met = CondMet(c.cond, c.arg, r), !.allmet = c.allmet,
                  !.errs = c.errs \cup PollErrs(c, r)]

\* the predicate is not satisfied and the timeout has not expired:
\* time.sleep(self._poll) and the next iteration
PollRetry(r) ==
    /\ cur.op # "idle"
    /\ PollResult(cur, r).status = "retry"
    /\ cur.polls + 1 < MaxPolls
    /\ cur' = [cur EXCEPT !.polls = @ + 1,
                          !.allmet = @ /\ CondMet(cur.cond, cur.arg, r),
                          !.errs = @ \cup PollErrs(cur, r)]
    /\ UNCHANGED <<fe_made, fe_kwargs, fe_elem, wrappers, last, sel>>

\* `self._elem = None` in the except clause
CacheAfterFailure_reset(old) == Null

\* wmeth raised inside `self._elem = ElemWrapper(wmeth(...))`: the assignment
\* does not happen and the except clause leaves self._elem alone
CacheAfterFailure(old) == old

\* wmeth raised e with message inner: Browser.wait lets it through,
\* FutureElement.wait catches WebDriverException and raises type(e)(...)
WaitFailed(c, r, e, inner) ==
    /\ LET call == [Ended(c, r) EXCEPT !.raised = e]
           x == Reraise(e, EnrichedMsg(fe_kwargs, c.neg, c.cond, c.arg, e, inner))
       IN  last' = IF c.op = "Browser.wait"
                   THEN [call EXCEPT !.exc = e, !.msg = inner]
                   ELSE [call EXCEPT !.exc = x.exc, !.msg = x.msg]
    /\ fe_elem' = IF c.op = "Browser.wait" THEN fe_elem ELSE CacheAfterFailure(fe_elem)
    /\ cur' = Idle
    /\ UNCHANGED <<fe_made, fe_kwargs, wrappers, sel>>

\* the predicate is not satisfied and time.time() > end_time
PollTimeout(r) ==
    /\ cur.op # "idle"
    /\ PollResult(cur, r).status = "retry"
    /\ WaitFailed(cur, r, "TimeoutException", TimeoutMsg)

\* the predicate raised an exception that the wait does not ignore
PollRaise(r) ==
    /\ cur.op # "idle"
    /\ PollResult(cur, r).status = "raise"
    /\ WaitFailed(cur, r, PollResult(cur, r).exc, DriverMsg(PollResult(cur, r).exc))

\* `self._elem = ...` skipped when a wrapper is cached already
CacheAfterWait_once(old, new) == IF old # Null THEN old ELSE new

\* `self._elem = ElemWrapper(wmeth(meth(*args)))`: the new value of self._elem
CacheAfterWait(old, new) == new

\* wmeth returned: the rest of FutureElement.wait and of its caller
\* (clear, click, send_keys, select), or the rest of Browser.wait
PollReturn(r, ires) ==
    /\ cur.op # "idle"
    /\ PollResult(cur, r).status = "return"
    /\ LET c == cur
           v == PollResult(c, r).val
           w == Len(wrappers) + 1
           elem == CacheAfterWait(fe_elem, w)
           ref == IF elem = w THEN v ELSE wrappers[elem]
           call == [Ended(c, r) EXCEPT !.el = r.el]
           waited == [call EXCEPT !.cached = elem]
           o == CASE c.op \in {"FutureElement.click", "FutureElement.send_keys"} ->
                         Wrapper_getattr(ref, ires)
                  [] c.op = "FutureElement.clear" -> Wrapper_clear(ref, ires)
                  [] c.op = "FutureElement.select" -> Wrapper_select(ref, c.kw, ires)
                  [] OTHER -> Outcome("", FALSE, FALSE)
       IN  /\ wrappers' = Append(wrappers, v)
           /\ IF c.op = "Browser.wait"
              THEN /\ last' = [call EXCEPT !.value = w]
                   /\ UNCHANGED fe_elem
              ELSE /\ fe_elem' = elem
                   /\ last' =
                        IF c.op = "FutureElement.wait"
                        THEN [waited EXCEPT !.value = elem]
                        ELSE [waited EXCEPT
                                !.exc = o.exc,
                                !.served = elem,
                                !.sent = IF o.sent THEN elem ELSE Null,
                                !.value = IF o.self THEN elem ELSE Null,
                                !.errs = IF o.sent /\ o.exc # ""
                                         THEN @ \cup {o.exc} ELSE @]
    /\ cur' = Idle
    /\ UNCHANGED <<fe_made, fe_kwargs, sel>>

-----------------------------------------------------------------------------
(* ElemWrapper, called on a wrapper w that some call returned *)

\* ElemWrapper.elem
ElemWrapper_elem(w, css, kwargs) ==
    /\ cur.op = "idle"
    /\ w \in DOMAIN wrappers
    /\ CallOK(css, kwargs)
    /\ LET kw == WithCss(css, kwargs)
           s == _get_selector(kw, selectors)
           call == [Blank EXCEPT !.op = "ElemWrapper.elem", !.kw = kw, !.served = w,
                                 !.prev = fe_elem]
       IN  IF s.exc # ""
           THEN /\ last' = [call EXCEPT !.exc = s.exc, !.msg = s.msg]
                /\ UNCHANGED wrappers
           ELSE IF wrappers[w][1] # "elem"
           THEN /\ last' = [call EXCEPT !.exc = "AttributeError"]
                /\ UNCHANGED wrappers
           ELSE \E r \in FindResponses :
                IF r.kind \in ErrKinds
                THEN \* do_raise(e)
                     /\ last' = [call EXCEPT !.exc = r.kind, !.msg = DriverMsg(r.kind),
                                             !.raised = r.kind, !.finds = 1,
                                             !.errs = {r.kind}]
                     /\ UNCHANGED wrappers
                ELSE /\ Room
                     /\ wrappers' = Append(wrappers, Elem(r.el))
                     /\ last' = [call EXCEPT !.value = Len(wrappers) + 1, !.finds = 1]
    /\ UNCHANGED <<fe_made, fe_kwargs, fe_elem, cur, sel>>

\* ElemWrapper.find
ElemWrapper_find(w, css, kwargs) ==
    /\ cur.op = "idle"
    /\ w \in DOMAIN wrappers
    /\ CallOK(css, kwargs)
    /\ LET kw == WithCss(css, kwargs)
           s == _get_selector(kw, selectors)
           call == [Blank EXCEPT !.op = "ElemWrapper.find", !.kw = kw, !.served = w,
                                 !.prev = fe_elem]
       IN  IF s.exc # ""
           THEN /\ last' = [call EXCEPT !.exc = s.exc, !.msg = s.msg]
                /\ UNCHANGED wrappers
           ELSE IF wrappers[w][1] # "elem"
           THEN /\ last' = [call EXCEPT !.exc = "AttributeError"]
                /\ UNCHANGED wrappers
           ELSE \E found \in FoundLists(MaxWrappers - Len(wrappers)) :
                /\ wrappers' = wrappers \o Wrapped(found)
                /\ last' = [call EXCEPT !.count = Len(found), !.finds = 1]
    /\ UNCHANGED <<fe_made, fe_kwargs, fe_elem, cur, sel>>

\* the record of a call made directly on wrapper w, with outcome o
Direct(op, w, kwargs, o) ==
    [Blank EXCEPT !.op = op, !.kw = kwargs, !.served = w, !.exc = o.exc,
                  !.prev = fe_elem,
                  !.sent = IF o.sent THEN w ELSE Null,
                  !.value = IF o.self THEN w ELSE Null,
                  !.errs = IF o.sent /\ o.exc # "" THEN {o.exc} ELSE {}]

\* ElemWrapper.select
ElemWrapper_select(w, kwargs, ires) ==
    /\ cur.op = "idle"
    /\ w \in DOMAIN wrappers
    /\ last' = Direct("ElemWrapper.select", w, kwargs,
                      Wrapper_select(wrappers[w], kwargs, ires))
    /\ UNCHANGED <<fe_made, fe_kwargs, fe_elem, wrappers, cur, sel>>

\* ElemWrapper.clear
ElemWrapper_clear(w, ires) ==
    /\ cur.op = "idle"
    /\ w \in DOMAIN wrappers
    /\ last' = Direct("ElemWrapper.clear", w, <<>>, Wrapper_clear(wrappers[w], ires))
    /\ UNCHANGED <<fe_made, fe_kwargs, fe_elem, wrappers, cur, sel>>

-----------------------------------------------------------------------------
(* The program: any call when no wait is in progress, else the next poll *)

Next ==
    \/ \E css \in CssArgs, kwargs \in SelSpecs : Browser_elem(css, kwargs)
    \/ \E css \in CssArgs, kwargs \in SelSpecs : Browser_find(css, kwargs)
    \/ \E kwargs \in CondSpecs : Browser_wait(kwargs)
    \/ \E condition \in ConditionStrings, arg \in WaitArgs :
           FutureElement_wait(condition, arg)
    \/ FutureElement_clear
    \/ FutureElement_click
    \/ FutureElement_send_keys
    \/ \E kwargs \in SelectSpecs : FutureElement_select(kwargs)
    \/ \E attr \in Attrs : FutureElement_getattr(attr)
    \/ \E r \in Responses(cur) : PollRetry(r)
    \/ \E r \in Responses(cur) : PollTimeout(r)
    \/ \E r \in Responses(cur) : PollRaise(r)
    \/ \E r \in Responses(cur), ires \in InteractionResults : PollReturn(r, ires)
    \/ \E w \in DOMAIN wrappers, css \in CssArgs, kwargs \in SelSpecs :
           ElemWrapper_elem(w, css, kwargs)
    \/ \E w \in DOMAIN wrappers, css \in CssArgs, kwargs \in SelSpecs :
           ElemWrapper_find(w, css, kwargs)
    \/ \E w \in DOMAIN wrappers, kwargs \in SelectSpecs, ires \in InteractionResults :
           ElemWrapper_select(w, kwargs, ires)
    \/ \E w \in DOMAIN wrappers, ires \in InteractionResults : ElemWrapper_clear(w, ires)

Spec == Init /\ [][Next]_vars

-----------------------------------------------------------------------------
(* _get_selector and _get_condition called on their own, on every spec *)

InitSel ==
    /\ fe_made = FALSE
    /\ fe_kwargs = <<>>
    /\ fe_elem = Null
    /\ wrappers = <<>>
    /\ cur = Idle
    /\ last = Blank
    /\ sel \in {[kwargs |-> k, fn |-> "", res |-> Returned("", "")] : k \in AllSpecs}

Call_get_selector ==
    /\ sel.fn = ""
    /\ sel' = [sel EXCEPT !.fn = "_get_selector",
                          !.res = _get_selector(sel.kwargs, selectors)]
    /\ UNCHANGED <<fe_made, fe_kwargs, fe_elem, wrappers, cur, last>>

Call_get_select_selector ==
    /\ sel.fn = ""
    /\ sel' = [sel EXCEPT !.fn = "_get_selector(_select_selectors)",
                          !.res = _get_selector(sel.kwargs, _select_selectors)]
    /\ UNCHANGED <<fe_made, fe_kwargs, fe_elem, wrappers, cur, last>>

Call_get_condition ==
    /\ sel.fn = ""
    /\ sel' = [sel EXCEPT !.fn = "_get_condition", !.res = _get_condition(sel.kwargs)]
    /\ UNCHANGED <<fe_made, fe_kwargs, fe_elem, wrappers, cur, last>>

NextSel == Call_get_selector \/ Call_get_select_selector \/ Call_get_condition

SpecSel == InitSel /\ [][NextSel]_vars

-----------------------------------------------------------------------------
(* Properties.  `last` describes the call that completed last, so an       *)
(* invariant over `last` is a statement about every call of every          *)
(* behaviour.                                                              *)

WaitOps ==
    {"FutureElement.wait", "FutureElement.clear", "FutureElement.click",
     "FutureElement.send_keys", "FutureElement.select"}
Interactions == WaitOps \ {"FutureElement.wait"}
HandleOps == WaitOps \cup {"FutureElement.__getattr__"}
ArgErrors == {"TypeError", "IndexError"}
\* wmeth returned in the call that completed last
WaitSucceeded == last.polls >= 1 /\ last.raised = ""

\* C1 (as claimed): the cached wrapper is assigned exactly once; every
\* operation on a handle that is already resolved reuses the cached wrapper:
\* it assigns no wrapper and FutureElement._elem stays what it was.
C1_AssignedOnce ==
    (last.op \in HandleOps /\ last.prev # Null) =>
        (last.cached = Null /\ fe_elem = last.prev)

\* C1 (amended): FutureElement._elem changes only by a successful
\* resolution.  An attribute access assigns it only while it is None, after
\* one find_element request.  Every wait that succeeds (the explicit one and
\* the clickable wait of clear, click, send_keys and select) has queried the
\* driver and assigns a wrapper constructed in that call, also when a wrapper
\* was cached before.  A call that assigns nothing leaves _elem as it was.
C1_AssignedBySuccessfulResolution ==
    last.op \in HandleOps =>
        /\ last.cached = Null => fe_elem = last.prev
        /\ last.cached # Null =>
              /\ fe_elem = last.cached
              /\ last.cached # last.prev
              /\ last.cached = Len(wrappers)
              /\ last.finds >= 1
        /\ (last.op = "FutureElement.__getattr__" /\ last.cached # Null) =>
              last.prev = Null
        /\ (last.op \in WaitOps /\ WaitSucceeded) => last.cached # Null

\* C1 witness: click() on a resolved handle replaced the cached wrapper
C1_Replaced ==
    /\ last.op = "FutureElement.click"
    /\ last.prev # Null
    /\ last.cached # Null
    /\ fe_elem # last.prev

\* C2: an attribute access on a handle that holds a cached wrapper is served
\* from that wrapper, issues no find_element request and leaves the cache
\* alone, also when the element has gone stale.
C2_ServedFromCache ==
    (last.op = "FutureElement.__getattr__" /\ last.prev # Null) =>
        /\ last.served = last.prev
        /\ last.finds = 0
        /\ last.cached = Null
        /\ fe_elem = last.prev

\* C2 witness: the attribute of a cached wrapper was read, the element was
\* stale, and no lookup was made
C2_StaleServed ==
    /\ last.op = "FutureElement.__getattr__"
    /\ last.prev # Null
    /\ last.served = last.prev
    /\ last.exc = "StaleElementReferenceException"
    /\ last.finds = 0

\* C3 (as claimed): every ElemWrapper constructed holds a concrete element
\* reference obtained from the driver, and the reference of a wrapper never
\* changes after its construction.
C3_WrapperHoldsElement ==
    /\ [](\A w \in DOMAIN wrappers : wrappers[w][1] = "elem")
    /\ [][\A w \in DOMAIN wrappers :
              w \in DOMAIN wrappers' /\ wrappers'[w] = wrappers[w]]_vars

\* the table a call checks its spec against
TableOf(op) ==
    CASE op = "Browser.wait" -> conditions
      [] op = "ElemWrapper.select" -> _select_selectors
      [] OTHER -> selectors
\* zero keys, more than one key, or an unrecognized key
BadSpec(kwargs, table) ==
    \/ Cardinality(DOMAIN kwargs) # 1
    \/ \E k \in DOMAIN kwargs : k \notin DOMAIN table

\* C4 (as claimed): a call that receives a bad selector or condition spec
\* raises the argument error itself, before any driver request or poll.
C4_ArgErrorImmediate ==
    (/\ last.op \in {"Browser.elem", "Browser.find", "Browser.wait",
                     "ElemWrapper.elem", "ElemWrapper.find", "ElemWrapper.select"}
     /\ BadSpec(last.kw, TableOf(last.op))) =>
        /\ last.exc = "TypeError"
        /\ last.finds = 0
        /\ last.polls = 0
        /\ last.sent = Null

\* C5: _get_selector (on Browser.selectors and on _select_selectors) and
\* _get_condition return the pair (table[key], value) for a spec of exactly
\* one recognized key, and fail with TypeError, returning nothing, for a
\* spec of zero keys, more than one key or an unrecognized key.
C5_OneKeyContract ==
    sel.fn # "" =>
        LET table == CASE sel.fn = "_get_selector" -> selectors
                       [] sel.fn = "_get_condition" -> conditions
                       [] OTHER -> _select_selectors
            keys == DOMAIN sel.kwargs
        IN  IF Cardinality(keys) = 1 /\ keys \subseteq DOMAIN table
            THEN /\ sel.res.exc = ""
                 /\ \A k \in keys :
                        sel.res.sel = table[k] /\ sel.res.val = sel.kwargs[k]
            ELSE /\ sel.res.exc = "TypeError"
                 /\ sel.res.sel = ""
                 /\ sel.res.val = ""

\* C5 witness: _get_selector(cls="v2") returned (By.CLASS_NAME, "v2")
C5_ClassName ==
    /\ sel.fn = "_get_selector"
    /\ DOMAIN sel.kwargs = {"cls"}
    /\ sel.res.exc = ""
    /\ sel.res.sel = "class name"
    /\ sel.res.val = "v2"

\* C6: clear, click, send_keys and select send their interaction only after
\* their own clickable wait has succeeded (its last poll reported the
\* element clickable), and send it to the wrapper that wait returned; when
\* the wait times out nothing is sent and TimeoutException reaches the caller.
C6_InteractAfterClickable ==
    last.op \in Interactions =>
        /\ last.cond = "clickable" /\ ~last.neg
        /\ last.sent # Null =>
              /\ WaitSucceeded
              /\ last.met
              /\ last.sent = last.cached
              /\ last.sent = fe_elem
              /\ wrappers[last.sent] = Elem(last.el)
        /\ last.raised = "TimeoutException" =>
              /\ last.sent = Null
              /\ last.exc = "TimeoutException"
              /\ last.value = Null

\* C6 witness: send_keys reached the element after a wait of several polls
C6_SentAfterWait ==
    /\ last.op = "FutureElement.send_keys"
    /\ last.sent # Null
    /\ last.exc = ""
    /\ last.polls >= 2

\* C7: wait("not clickable") returns at the first poll at which the driver
\* does not report the element clickable (every earlier poll reported it
\* clickable), and when every poll until the timeout reported it clickable
\* the wait fails with TimeoutException and returns nothing.  While the wait
\* is in progress every poll so far reported the element clickable.
C7_NotClickable ==
    /\ (cur.op = "FutureElement.wait" /\ cur.neg /\ cur.cond = "clickable") =>
          /\ cur.allmet
          /\ \A r \in PollResponses :
                /\ ReportsClickable(r) => PollResult(cur, r).status = "retry"
                /\ (~ReportsClickable(r) /\ r.kind # "WebDriverException") =>
                      PollResult(cur, r).status = "return"
    /\ (last.op = "FutureElement.wait" /\ last.neg /\ last.cond = "clickable") =>
          /\ last.exc = "" =>
                /\ last.polls >= 1 /\ ~last.met /\ last.allmet
                /\ last.value # Null
          /\ (last.polls >= 1 /\ last.met) =>
                /\ last.allmet
                /\ last.exc = "TimeoutException"
                /\ last.value = Null
                /\ last.cached = Null
          /\ last.exc = "TimeoutException" => last.met /\ last.allmet
          /\ (last.polls >= 1 /\ ~last.met /\ last.exc # "") =>
                last.raised = "WebDriverException"

\* C7 witness: the element was clickable at two polls and not at the third
C7_ReturnedAtThirdPoll ==
    /\ last.op = "FutureElement.wait" /\ last.neg /\ last.cond = "clickable"
    /\ last.exc = ""
    /\ last.polls = 3
    /\ ~last.met

\* C8: a wait("text") without negation never ends in a staleness error; a
\* poll that raised staleness counts as not satisfied, and the wait returns
\* the element of the first poll at which the element's text is non-empty
\* (no target) or contains the target.
C8_StalenessSwallowed ==
    /\ (cur.op = "FutureElement.wait" /\ cur.cond = "text" /\ ~cur.neg) =>
          \A r \in PollResponses :
              IsStale(r) => PollResult(cur, r).status = "retry"
    /\ (last.op = "FutureElement.wait" /\ last.cond = "text" /\ ~last.neg) =>
          /\ last.exc # "StaleElementReferenceException"
          /\ last.raised # "StaleElementReferenceException"
          /\ (last.polls >= 1 /\ last.met) =>
                /\ last.exc = ""
                /\ last.value # Null
                /\ wrappers[last.value] = Elem(last.el)
          /\ last.exc = "" => last.met

\* C8 witness: staleness at the first poll, the element with its text at the
\* second, and the wait returned it
C8_RetriedAfterStale ==
    /\ last.op = "FutureElement.wait" /\ last.cond = "text" /\ ~last.neg
    /\ last.polls = 2
    /\ "StaleElementReferenceException" \in last.errs
    /\ last.exc = ""
    /\ last.value # Null
    /\ wrappers[last.value] = Elem(last.el)

ResolvingOps == {"FutureElement.__getattr__", "FutureElement.wait", "ElemWrapper.elem"}

LazyHandleLifecycle ==
    /\ last.op = "Browser.elem" =>
          fe_elem = Null /\ last.finds = 0 /\ last.polls = 0
    /\ (last.op \in HandleOps /\ last.prev = Null /\ fe_elem # Null) =>
          \/ last.op = "FutureElement.__getattr__" /\ last.finds = 1 /\ last.raised = ""
          \/ last.op \in WaitOps /\ WaitSucceeded
    /\ (last.op \in HandleOps /\ last.raised # "") => fe_elem = last.prev
    /\ last.prev # Null => fe_elem # Null
    /\ cur.prev # Null => fe_elem # Null

\* C10 (as claimed): the lazy handle goes from unresolved to resolved only,
\* and a failed lookup, a timed-out wait or an argument error leaves the
\* cache exactly as it was.
C10_TwoStates ==
    /\ LazyHandleLifecycle
    /\ (last.op \in HandleOps /\ last.exc \in ArgErrors) => fe_elem = last.prev

\* C10 (amended): as claimed, but of the argument errors only those raised
\* before the first poll (a bad selector, a bad condition, an argument the
\* predicate does not take) leave the cache as it was; the argument error of
\* select(**kwargs) is raised after the clickable wait has succeeded and has
\* replaced the cache.
C10_TwoStatesAmended ==
    /\ LazyHandleLifecycle
    /\ (last.op \in HandleOps /\ last.exc \in ArgErrors /\ last.polls = 0) =>
          fe_elem = last.prev
    /\ (last.op = "FutureElement.select" /\ last.exc \in ArgErrors /\ last.polls >= 1) =>
          fe_elem = last.cached /\ fe_elem # last.prev

\* C10 witness: a wait on a resolved handle timed out and the cache is as it was
C10_TimeoutKeepsCache ==
    /\ last.op = "FutureElement.wait"
    /\ last.raised = "TimeoutException"
    /\ last.prev # Null
    /\ fe_elem = last.prev

====
